---- MODULE Spec2Model ----
(***************************************************************************)
(* Negotiation engine of the Deal Scout marketplace tool.                  *)
(*                                                                         *)
(* Modelled, each with its own specification:                              *)
(*   - the lowball flow: NegotiationStateMachine (state_machine.py), one   *)
(*     session driven by start / send_offer / receive_response (Spec);     *)
(*   - the agent flow: POST /negotiate/start, its background task          *)
(*     (run_negotiation_task -> start_negotiation -> simulate_negotiation) *)
(*     and POST /negotiate/abort (routers/negotiate.py) (SpecAgent);       *)
(*   - the persistence of the lowball flow: NegotiationManager             *)
(*     create_negotiation / update_negotiation on one row (SpecManager);   *)
(*   - the pure calculations _calculate_counter_offer and                  *)
(*     POST /negotiate/bounds, one call each (SpecCalc).                   *)
(*                                                                         *)
(* Money of the lowball flow is whole dollars (the code's int).  Money of  *)
(* the agent flow is Python float; it is kept here in cents, exact for the *)
(* whole-dollar listings the model draws.                                  *)
(* Message text and timestamps carry no decision of the engine and are     *)
(* left out of the message records.                                        *)
(***************************************************************************)
EXTENDS Integers, Sequences, FiniteSets, TLC

VARIABLES
    \* ---- lowball flow: NegotiationStateMachine fields
    asking_price,     \* listing.price_value or 0
    max_budget,
    current_offer,
    state,
    round,
    messages,         \* sequence of [role, amount]
    call,             \* the last call made on the session: the fields at entry,
                      \* whether it raised, and for an accepted call its
                      \* arguments and what it returned
    \* ---- agent flow: routers/negotiate.py and agents/negotiation_agent.py
    listing,          \* ListingContext of the request
    negotiation_data, \* negotiation_data[negotiation_id], or absent
    negotiation_streams, \* negotiation_streams[negotiation_id], or absent
    task,             \* position of run_negotiation_task
    neg,              \* NegotiationState of the task
    aborts,           \* number of abort requests served
    \* ---- lowball persistence: services/negotiation/manager.py
    db,               \* the row of the negotiations table, or absent
    requests,         \* the update_negotiation calls made for the row
    \* ---- the pure calculations, called on their own
    calc,             \* the last calculation: its inputs and what it returned
    \* ---- the scout: agent/deal_scout_agent.py, rate_limiting/rate_limiter.py,
    \*      error_handling/error_handler.py, browser_automation/chrome_navigator.py
    settings,         \* AgentSettings: retry_config and rate_limiting
    now,              \* datetime.now(), in ticks
    request_timestamps, \* RateLimiter.request_timestamps
    searches,         \* the search_deals calls made on the agent
    navigations,      \* the time of every navigate_page tool call issued
    \* ---- POST /negotiate/start served more than once: routers/negotiate.py
    clock,            \* int(time.time()), in seconds
    starts,           \* the start requests made and their background tasks
    data_by_id,       \* the dict negotiation_data, by negotiation id
    streams_by_id     \* the dict negotiation_streams, by negotiation id

sessionVars == <<asking_price, max_budget, current_offer, state, round, messages, call>>
agentVars == <<listing, negotiation_data, negotiation_streams, task, neg, aborts>>
managerVars == <<db, requests>>
calcVars == <<calc>>
scoutVars == <<settings, now, request_timestamps, searches, navigations>>
startVars == <<clock, starts, data_by_id, streams_by_id>>
vars == <<asking_price, max_budget, current_offer, state, round, messages, call,
          listing, negotiation_data, negotiation_streams, task, neg, aborts,
          db, requests, calc,
          settings, now, request_timestamps, searches, navigations,
          clock, starts, data_by_id, streams_by_id>>

---------------------------------------------------------------------------
\* Bounds of the model.

\* Longest message list explored (Unclear responses can repeat for ever).
MaxMessages == 3

\* Most abort requests explored for one negotiation.
MaxAborts == 2

\* Most update_negotiation calls explored for one row.
MaxRequests == 3

\* Most search_deals calls explored on one agent, and the last clock tick.
MaxSearches == 2
MaxTime == 2

\* Most POST /negotiate/start requests explored, and the last second of the
\* clock they read.
MaxStarts == 2
MaxClock == 1

\* Optional[int] = None of seller_counter and of absent result fields.
None == -1

\* Listing prices, budgets, offers and seller counters drawn by the model.
AskingPrices == {0, 100}
Budgets == {50, 66, 70, 80}
Offers == {60, 90}
SellerCounters == {None, 0, 69, 72, 90}

Intents == {"acceptance", "rejection", "counter", "unclear"}

---------------------------------------------------------------------------
\* Arithmetic helpers.

Abs(x) == IF x >= 0 THEN x ELSE -x

Min(a, b) == IF a <= b THEN a ELSE b

\* Python int(): n/d truncated toward zero (d > 0).
Trunc(n, d) == IF n >= 0 THEN n \div d ELSE -((-n) \div d)

\* Python round(v, -1) of v = n100/100 >= 0: nearest multiple of 10, a tie
\* going to the even multiple (round-half-even).
Round10(n100) ==
    LET q == n100 \div 1000
        r == n100 % 1000
    IN  IF r < 500 THEN q * 10
        ELSE IF r > 500 THEN (q + 1) * 10
        ELSE IF q % 2 = 0 THEN q * 10 ELSE (q + 1) * 10

---------------------------------------------------------------------------
\* agents/negotiation_strategy.py

Tiers == {"shrewd", "moderate", "lenient", "accept"}

\* deal_rating, listing_age_days and user_override values drawn by the model.
DealRatings == {"HOT", "GOOD", "FAIR", "PASS"}
ListingAges == {None, 0, 1, 20}
Overrides == {""} \cup Tiers

\* STRATEGIES[tier].initial_offer_pct, in percent.
initial_offer_pct(tier) ==
    CASE tier = "shrewd" -> 50
      [] tier = "moderate" -> 70
      [] tier = "lenient" -> 85
      [] tier = "accept" -> 100

\* The initial offer rounded down to a multiple of 10 instead of to the
\* nearest one.
calculate_initial_offer_floor(tier, asking) ==
    ((asking * initial_offer_pct(tier)) \div 1000) * 10

\* NegotiationStrategy.calculate_initial_offer: round(asking * pct, -1).
calculate_initial_offer(tier, asking) == Round10(asking * initial_offer_pct(tier))

\* discount_pct = (market_avg - asking) / market_avg, or 0 when market_avg <= 0,
\* compared with p/100.
discount_gt(asking, market_avg, p) ==
    IF market_avg > 0 THEN (market_avg - asking) * 100 > p * market_avg ELSE 0 > p

discount_lt(asking, market_avg, p) ==
    IF market_avg > 0 THEN (market_avg - asking) * 100 < p * market_avg ELSE 0 < p

\* The great-deal test taking a discount of exactly 40% as well.
is_great_deal_from_40(asking, market_avg, deal_rating) ==
    deal_rating = "HOT" \/ ~discount_lt(asking, market_avg, 40)

\* "Great deals - just buy them".
is_great_deal(asking, market_avg, deal_rating) ==
    deal_rating = "HOT" \/ discount_gt(asking, market_avg, 40)

\* The base tier with the Moderate and Lenient outcomes exchanged.
base_tier_exchanged(asking, market_avg, deal_rating) ==
    IF deal_rating = "PASS" \/ discount_lt(asking, market_avg, 10) THEN "shrewd"
    ELSE IF deal_rating = "FAIR" \/ discount_lt(asking, market_avg, 20) THEN "lenient"
    ELSE "moderate"

\* "Determine base tier from deal quality".
base_tier(asking, market_avg, deal_rating) ==
    IF deal_rating = "PASS" \/ discount_lt(asking, market_avg, 10) THEN "shrewd"
    ELSE IF deal_rating = "FAIR" \/ discount_lt(asking, market_avg, 20) THEN "moderate"
    ELSE "lenient"

\* "Adjust for listing age".  age = None or 0 is "no age" (falsy).
adjust_for_age(base, age) ==
    LET hasAge == age # None /\ age # 0
    IN  IF hasAge /\ age > 14
        THEN (IF base = "lenient" THEN "moderate"
              ELSE IF base = "moderate" THEN "shrewd" ELSE base)
        ELSE IF hasAge /\ age < 2
        THEN (IF base = "shrewd" THEN "moderate" ELSE base)
        ELSE base

\* StrategySelector.select_strategy.  override = "" is "no override".
select_strategy(asking, market_avg, deal_rating, age, override) ==
    IF override # "" THEN override
    ELSE IF is_great_deal(asking, market_avg, deal_rating) THEN "accept"
    ELSE adjust_for_age(base_tier(asking, market_avg, deal_rating), age)

---------------------------------------------------------------------------
\* services/negotiation/state_machine.py

TerminalStates == {"accepted", "rejected", "abandoned"}

\* concession_rates, in percent.
concession_rates == <<50, 40, 30, 20, 15>>

\* The convergence test and the midpoint taken against current_offer instead
\* of against the scheduled offer.
calculate_counter_offer_from_current(cur, seller_counter, rnd, asking) ==
    LET rate == concession_rates[Min(rnd - 1, Len(concession_rates) - 1) + 1]
        gap == seller_counter - cur
        new100 == cur * 100 + gap * rate
    IN  IF Abs(seller_counter - cur) * 100 < asking * 5
        THEN Trunc(seller_counter + cur, 2)
        ELSE Trunc(new100, 100)

\* The convergence test taken as "at most 5%" instead of "less than 5%".
calculate_counter_offer_inclusive(cur, seller_counter, rnd, asking) ==
    LET rate == concession_rates[Min(rnd - 1, Len(concession_rates) - 1) + 1]
        gap == seller_counter - cur
        new100 == cur * 100 + gap * rate
    IN  IF Abs(seller_counter * 100 - new100) <= asking * 5
        THEN Trunc(seller_counter * 100 + new100, 200)
        ELSE Trunc(new100, 100)

\* The concession taken on the distance between the two positions, whichever
\* of them is the higher.
calculate_counter_offer_on_distance(cur, seller_counter, rnd, asking) ==
    LET rate == concession_rates[Min(rnd - 1, Len(concession_rates) - 1) + 1]
        gap == Abs(seller_counter - cur)
        new100 == cur * 100 + gap * rate
    IN  IF Abs(seller_counter * 100 - new100) < asking * 5
        THEN Trunc(seller_counter * 100 + new100, 200)
        ELSE Trunc(new100, 100)

\* _calculate_counter_offer, with self.round = rnd at the time of the call.
\* Amounts are carried times 100 so that gap * rate is exact.
calculate_counter_offer(cur, seller_counter, rnd, asking) ==
    LET rate == concession_rates[Min(rnd - 1, Len(concession_rates) - 1) + 1]
        gap == seller_counter - cur
        new100 == cur * 100 + gap * rate
    IN  IF Abs(seller_counter * 100 - new100) < asking * 5
        THEN Trunc(seller_counter * 100 + new100, 200)
        ELSE Trunc(new100, 100)

\* The states each operation is accepted from (the guards that raise ValueError).
can_start(st) == st = "idle"

\* send_offer also accepted while the seller's answer is awaited.
can_send_offer_awaiting(st) == st \in {"composing", "awaiting"}

can_send_offer(st) == st = "composing"

can_receive_response(st) == st = "awaiting"

\* The initial offer taken from a strategy tier instead of the fixed 65%.
start_offer_tier(asking) == calculate_initial_offer("moderate", asking)

\* start(): the initial offer, int(asking_price * 0.65).
start_offer(asking) == Trunc(asking * 65, 100)

\* The final-offer range taken as 10% above the budget.
within_final_offer_range_wide(seller_counter, budget) ==
    seller_counter * 100 <= budget * 110

\* seller_counter <= max_budget * 1.05
within_final_offer_range(seller_counter, budget) == seller_counter * 100 <= budget * 105

\* The counter branch without the budget check.
counter_outcome_uncapped(new_offer, seller_counter, budget) ==
    [state |-> "countering", recommended_action |-> "counter",
     suggested_offer |-> new_offer]

\* receive_response, the branch taken for a counter: what the call returns
\* and the state it leaves, given the computed new_offer.
counter_outcome(new_offer, seller_counter, budget) ==
    IF new_offer > budget
    THEN IF within_final_offer_range(seller_counter, budget)
         THEN [state |-> "countering", recommended_action |-> "final_offer",
               suggested_offer |-> budget]
         ELSE [state |-> "abandoned", recommended_action |-> "walk_away",
               suggested_offer |-> None]
    ELSE [state |-> "countering", recommended_action |-> "counter",
          suggested_offer |-> new_offer]

\* The acceptance branch taking the seller's counter as the session's offer.
acceptance_outcome_counter(s, seller_counter) ==
    [state |-> "accepted", round |-> s.round,
     current_offer |-> IF seller_counter # None /\ seller_counter # 0
                       THEN seller_counter ELSE s.current_offer,
     recommended_action |-> "accept", suggested_offer |-> None, agreed_price |-> None]

\* The clarify branch counting the unclear answer as a round.
clarify_outcome_round(s) ==
    [state |-> s.state, round |-> s.round + 1, current_offer |-> s.current_offer,
     recommended_action |-> "clarify", suggested_offer |-> None, agreed_price |-> None]

\* The rejection branch clearing the round counter.
rejection_outcome_reset(s) ==
    [state |-> "rejected", round |-> 0, current_offer |-> s.current_offer,
     recommended_action |-> "walk_away", suggested_offer |-> None, agreed_price |-> None]

\* receive_response, the branches by intent: the session fields each leaves
\* and the dict it returns.  s is the session at entry; the returned dicts
\* carry no agreed price (agreed_price |-> None).

acceptance_outcome(s, seller_counter) ==
    [state |-> "accepted", round |-> s.round, current_offer |-> s.current_offer,
     recommended_action |-> "accept", suggested_offer |-> None, agreed_price |-> None]

rejection_outcome(s) ==
    [state |-> "rejected", round |-> s.round, current_offer |-> s.current_offer,
     recommended_action |-> "walk_away", suggested_offer |-> None, agreed_price |-> None]

\* The counter branch assigning the suggested offer to current_offer.
counter_response_outcome_assign(s, seller_counter) ==
    LET o == counter_outcome(
                 calculate_counter_offer(s.current_offer, seller_counter,
                                         s.round + 1, s.asking_price),
                 seller_counter, s.max_budget)
    IN  [state |-> o.state, round |-> s.round + 1,
         current_offer |-> IF o.suggested_offer # None
                           THEN o.suggested_offer ELSE s.current_offer,
         recommended_action |-> o.recommended_action,
         suggested_offer |-> o.suggested_offer, agreed_price |-> None]

\* self.round += 1 comes before _calculate_counter_offer reads self.round;
\* self.current_offer is not assigned: the new offer is only suggested.
counter_response_outcome(s, seller_counter) ==
    LET o == counter_outcome(
                 calculate_counter_offer(s.current_offer, seller_counter,
                                         s.round + 1, s.asking_price),
                 seller_counter, s.max_budget)
    IN  [state |-> o.state, round |-> s.round + 1, current_offer |-> s.current_offer,
         recommended_action |-> o.recommended_action,
         suggested_offer |-> o.suggested_offer, agreed_price |-> None]

clarify_outcome(s) ==
    [state |-> s.state, round |-> s.round, current_offer |-> s.current_offer,
     recommended_action |-> "clarify", suggested_offer |-> None, agreed_price |-> None]

\* The counter branch taken whether or not a seller_counter came with it.
is_counter_any(intent, seller_counter) == intent = "counter"

\* "elif intent == 'counter' and seller_counter": None and 0 are falsy.
is_counter(intent, seller_counter) ==
    intent = "counter" /\ seller_counter # None /\ seller_counter # 0

response_outcome(s, intent, seller_counter) ==
    IF intent = "acceptance" THEN acceptance_outcome(s, seller_counter)
    ELSE IF intent = "rejection" THEN rejection_outcome(s)
    ELSE IF is_counter(intent, seller_counter)
         THEN counter_response_outcome(s, seller_counter)
    ELSE clarify_outcome(s)

\* The message list with the new message put first instead of last.
record_message_first(msgs, role, amount) ==
    <<[role |-> role, amount |-> amount]>> \o msgs

\* self.messages.append({"role": ..., "amount": ...})
record_message(msgs, role, amount) ==
    Append(msgs, [role |-> role, amount |-> amount])

\* get_state(): the session fields, also kept in call.pre as they were when
\* the call was made.
get_state ==
    [state |-> state, asking_price |-> asking_price, current_offer |-> current_offer,
     max_budget |-> max_budget, round |-> round, messages |-> messages]

NoCall ==
    [op |-> "none", raised |-> FALSE, pre |-> get_state, offer |-> None,
     intent |-> "none", seller_counter |-> None,
     recommended_action |-> "none", suggested_offer |-> None, agreed_price |-> None]

\* start() refusing a listing without a positive price.
start_checked ==
    /\ IF ~can_start(state) \/ asking_price <= 0
       THEN /\ call' = [NoCall EXCEPT !.op = "start", !.raised = TRUE]
            /\ UNCHANGED <<current_offer, state, round>>
       ELSE /\ current_offer' = start_offer(asking_price)
            /\ state' = "composing"
            /\ round' = 1
            /\ call' = [NoCall EXCEPT !.op = "start",
                                      !.suggested_offer = start_offer(asking_price)]
    /\ UNCHANGED <<asking_price, max_budget, messages>>
    /\ UNCHANGED <<agentVars, managerVars, calcVars, scoutVars, startVars>>

start ==
    /\ IF ~can_start(state)
       THEN /\ call' = [NoCall EXCEPT !.op = "start", !.raised = TRUE]
            /\ UNCHANGED <<current_offer, state, round>>
       ELSE /\ current_offer' = start_offer(asking_price)
            /\ state' = "composing"
            /\ round' = 1
            /\ call' = [NoCall EXCEPT !.op = "start",
                                      !.suggested_offer = start_offer(asking_price)]
    /\ UNCHANGED <<asking_price, max_budget, messages>>
    /\ UNCHANGED <<agentVars, managerVars, calcVars, scoutVars, startVars>>

send_offer(offer) ==
    /\ IF ~can_send_offer(state)
       THEN /\ call' = [NoCall EXCEPT !.op = "send_offer", !.raised = TRUE]
            /\ UNCHANGED <<current_offer, state, messages>>
       ELSE /\ Len(messages) < MaxMessages
            /\ current_offer' = offer
            /\ messages' = record_message(messages, "user", offer)
            /\ state' = "awaiting"
            /\ call' = [NoCall EXCEPT !.op = "send_offer", !.offer = offer]
    /\ UNCHANGED <<asking_price, max_budget, round>>
    /\ UNCHANGED <<agentVars, managerVars, calcVars, scoutVars, startVars>>

\* intent is the classification _analyze_response returns for the message
\* (the LLM's answer, or the keyword fallback): an input of the model.
receive_response(intent, seller_counter) ==
    /\ IF ~can_receive_response(state)
       THEN /\ call' = [NoCall EXCEPT !.op = "receive_response", !.raised = TRUE]
            /\ UNCHANGED <<current_offer, state, round, messages>>
       ELSE LET o == response_outcome(get_state, intent, seller_counter)
            IN  /\ Len(messages) < MaxMessages
                /\ messages' = record_message(messages, "seller", seller_counter)
                /\ state' = o.state
                /\ round' = o.round
                /\ current_offer' = o.current_offer
                /\ call' = [NoCall EXCEPT !.op = "receive_response",
                                          !.intent = intent,
                                          !.seller_counter = seller_counter,
                                          !.recommended_action = o.recommended_action,
                                          !.suggested_offer = o.suggested_offer,
                                          !.agreed_price = o.agreed_price]
    /\ UNCHANGED <<asking_price, max_budget>>
    /\ UNCHANGED <<agentVars, managerVars, calcVars, scoutVars, startVars>>

---------------------------------------------------------------------------
\* agents/negotiation_state.py, agents/negotiation_agent.py (amounts in cents)

\* The requests the model draws (NegotiateRequest / ListingContext):
\* whole-dollar asking_price and market_avg, user_max_price in dollars.
Listings ==
    { [asking_price |-> 1000, market_avg |-> 1200, deal_rating |-> "GOOD",
       listing_age_days |-> None, user_max_price |-> None, user_strategy |-> ""],
      [asking_price |-> 100, market_avg |-> 100, deal_rating |-> "PASS",
       listing_age_days |-> 20, user_max_price |-> None, user_strategy |-> ""],
      [asking_price |-> 1000, market_avg |-> 800, deal_rating |-> "FAIR",
       listing_age_days |-> 1, user_max_price |-> None, user_strategy |-> ""],
      [asking_price |-> 1000, market_avg |-> 1200, deal_rating |-> "GOOD",
       listing_age_days |-> None, user_max_price |-> 900, user_strategy |-> "moderate"],
      [asking_price |-> 200, market_avg |-> 100, deal_rating |-> "HOT",
       listing_age_days |-> None, user_max_price |-> None, user_strategy |-> ""],
      [asking_price |-> 1000, market_avg |-> 1200, deal_rating |-> "GOOD",
       listing_age_days |-> None, user_max_price |-> None, user_strategy |-> "bogus"] }

\* NegotiationState(listing_id=...): the dataclass defaults.
NewNegotiationState ==
    [status |-> "idle", our_initial_offer |-> None, our_last_offer |-> None,
     seller_last_offer |-> None, agreed_price |-> None, message_history |-> <<>>,
     messages_sent |-> 0, walk_away_price |-> None, walk_away_reason |-> FALSE]

\* calculate_walk_away_price, in cents:
\* market_avg - market_avg * 0.16 - 15 - 30, capped at the asking price.
calculate_walk_away_price(l) ==
    IF l.user_max_price # None
    THEN l.user_max_price * 100
    ELSE Min(l.market_avg * 84 - 4500, l.asking_price * 100)

\* NegotiationState.record_our_message(content, offer); offer in cents or None.
record_our_message(n, offer) ==
    LET m == [n EXCEPT !.message_history =
                           Append(@, [role |-> "user", offer_amount |-> offer]),
                       !.messages_sent = @ + 1]
    IN  IF offer # None /\ offer # 0
        THEN [m EXCEPT !.our_initial_offer = IF @ = None THEN offer ELSE @,
                       !.our_last_offer = offer]
        ELSE m

\* NegotiationState.record_seller_message(content, offer).
record_seller_message(n, offer) ==
    LET m == [n EXCEPT !.message_history =
                           Append(@, [role |-> "seller", offer_amount |-> offer])]
    IN  IF offer # None /\ offer # 0
        THEN [m EXCEPT !.seller_last_offer = offer]
        ELSE m

\* NegotiationState.to_dict(): what a state_update event stores.
to_dict(n) ==
    [status |-> n.status, our_last_offer |-> n.our_last_offer,
     seller_last_offer |-> n.seller_last_offer, agreed_price |-> n.agreed_price,
     messages_sent |-> n.messages_sent, walk_away_price |-> n.walk_away_price]

\* The tier start_negotiation negotiates with.
listing_tier(l) ==
    select_strategy(l.asking_price, l.market_avg, l.deal_rating,
                    l.listing_age_days, l.user_strategy)

\* simulate_negotiation up to its asyncio.sleep(1): the opening message.
simulate_opening(n, l) ==
    [record_our_message(n, calculate_initial_offer(listing_tier(l), l.asking_price) * 100)
        EXCEPT !.status = "initial_contact"]

\* simulate_negotiation after the sleep: the simulated seller answers and
\* the negotiation ends.
simulate_response(n, l) ==
    LET initial_offer == calculate_initial_offer(listing_tier(l), l.asking_price)
        seller_counter == (l.asking_price + initial_offer) * 50
    IN  IF l.asking_price - initial_offer > 100
        THEN LET r == record_seller_message(n, seller_counter)
             IN  IF seller_counter <= r.walk_away_price
                 THEN [record_our_message(r, None)
                          EXCEPT !.status = "deal_accepted",
                                 !.agreed_price = seller_counter]
                 ELSE [record_our_message(r, None)
                          EXCEPT !.status = "walked_away",
                                 !.walk_away_reason = TRUE]
        ELSE [record_seller_message(n, None)
                 EXCEPT !.status = "deal_accepted",
                        !.agreed_price = initial_offer * 100]

---------------------------------------------------------------------------
\* routers/negotiate.py: one negotiation id.

NoData == [present |-> FALSE, status |-> "none", state |-> "none", final_price |-> None]

NoStream == [present |-> FALSE, queue |-> <<>>]

\* negotiation_streams[negotiation_id].put(ev), guarded by
\* "if negotiation_id in negotiation_streams".
put(streams, evs) ==
    IF streams.present THEN [streams EXCEPT !.queue = @ \o evs] ELSE streams

\* POST /negotiate/start
start_negotiation_endpoint ==
    /\ task = "none"
    /\ negotiation_data' = [NoData EXCEPT !.present = TRUE, !.status = "starting"]
    /\ negotiation_streams' = [present |-> TRUE, queue |-> <<>>]
    /\ task' = "scheduled"
    /\ UNCHANGED <<listing, neg, aborts>>
    /\ UNCHANGED <<sessionVars, managerVars, calcVars, scoutVars, startVars>>

\* run_negotiation_task from its start to the first suspension, the
\* asyncio.sleep(1) of simulate_negotiation.  An override that names no tier
\* makes select_strategy raise; the task's except records the error.
run_negotiation_task_begin ==
    /\ task = "scheduled"
    /\ IF listing.user_strategy # "" /\ listing.user_strategy \notin Tiers
       THEN /\ neg' = NewNegotiationState
            /\ negotiation_data' =
                   IF negotiation_data.present
                   THEN [negotiation_data EXCEPT !.status = "error"]
                   ELSE negotiation_data
            /\ negotiation_streams' = put(negotiation_streams, <<"error">>)
            /\ task' = "done"
       ELSE LET n == simulate_opening(
                         [NewNegotiationState EXCEPT
                              !.walk_away_price = calculate_walk_away_price(listing)],
                         listing)
            IN  /\ neg' = n
                /\ negotiation_streams' =
                       put(negotiation_streams,
                           <<"negotiation_started", "agent_message", "state_update">>)
                /\ negotiation_data' =
                       IF negotiation_data.present
                       THEN [negotiation_data EXCEPT !.state = to_dict(n)]
                       ELSE negotiation_data
                /\ task' = "sleeping"
    /\ UNCHANGED <<listing, aborts>>
    /\ UNCHANGED <<sessionVars, managerVars, calcVars, scoutVars, startVars>>

\* run_negotiation_task from the end of the sleep to its return: the rest of
\* simulate_negotiation, then the result written to negotiation_data.
run_negotiation_task_finish ==
    /\ task = "sleeping"
    /\ LET n == simulate_response(neg, listing)
           countered == listing.asking_price
                          - calculate_initial_offer(listing_tier(listing),
                                                    listing.asking_price) > 100
       IN  /\ neg' = n
           /\ negotiation_streams' =
                  put(negotiation_streams,
                      (IF countered THEN <<"agent_message">> ELSE <<>>)
                      \o <<"agent_message", "state_update", "negotiation_complete",
                           "negotiation_complete">>)
           /\ negotiation_data' =
                  IF negotiation_data.present
                  THEN [negotiation_data EXCEPT !.state = to_dict(n),
                                                !.status = n.status,
                                                !.final_price = n.agreed_price]
                  ELSE negotiation_data
    /\ task' = "done"
    /\ UNCHANGED <<listing, aborts>>
    /\ UNCHANGED <<sessionVars, managerVars, calcVars, scoutVars, startVars>>

\* POST /negotiate/abort/{negotiation_id}
abort_negotiation ==
    /\ aborts < MaxAborts
    /\ aborts' = aborts + 1
    /\ negotiation_streams' = put(negotiation_streams, <<"abort">>)
    /\ negotiation_data' =
           IF negotiation_data.present
           THEN [negotiation_data EXCEPT !.status = "aborted"]
           ELSE negotiation_data
    /\ UNCHANGED <<listing, task, neg>>
    /\ UNCHANGED <<sessionVars, managerVars, calcVars, scoutVars, startVars>>

\* GET /negotiate/stream/{negotiation_id}: the event generator forwards one
\* queued event; after negotiation_complete or error it deletes the stream.
stream_negotiation ==
    /\ negotiation_streams.present
    /\ negotiation_streams.queue # <<>>
    /\ negotiation_streams' =
           IF Head(negotiation_streams.queue) \in {"negotiation_complete", "error"}
           THEN NoStream
           ELSE [negotiation_streams EXCEPT !.queue = Tail(@)]
    /\ UNCHANGED <<listing, negotiation_data, task, neg, aborts>>
    /\ UNCHANGED <<sessionVars, managerVars, calcVars, scoutVars, startVars>>

---------------------------------------------------------------------------
\* Values of the flow that is not running.

NoListing ==
    [asking_price |-> 0, market_avg |-> 0, deal_rating |-> "PASS",
     listing_age_days |-> None, user_max_price |-> None, user_strategy |-> ""]

AgentIdle ==
    /\ listing = NoListing
    /\ negotiation_data = NoData
    /\ negotiation_streams = NoStream
    /\ task = "none"
    /\ neg = NewNegotiationState
    /\ aborts = 0

NoCall0 ==
    [op |-> "none", raised |-> FALSE,
     pre |-> [state |-> "idle", asking_price |-> 0, current_offer |-> 0,
              max_budget |-> 0, round |-> 0, messages |-> <<>>],
     offer |-> None, intent |-> "none", seller_counter |-> None,
     recommended_action |-> "none", suggested_offer |-> None, agreed_price |-> None]

SessionIdle ==
    /\ asking_price = 0
    /\ max_budget = 0
    /\ current_offer = 0
    /\ state = "idle"
    /\ round = 0
    /\ messages = <<>>
    /\ call = NoCall0

\* No row in the negotiations table, no update_negotiation call made.
NoRow == [state |-> "none"]

Requests == 1..MaxRequests

NoRequest == [pc |-> "new"]

ManagerIdle ==
    /\ db = NoRow
    /\ requests = [r \in Requests |-> NoRequest]

\* No calculation made.
NoCalc == [fn |-> "none"]

CalcIdle == calc = NoCalc

\* The scout agent built with the default settings, no search made.
Searches == 1..MaxSearches

NoSearch ==
    [pc |-> "new", attempt |-> 0, navigate |-> <<>>, wait_for |-> <<>>,
     raised |-> 0, timeouts |-> <<>>]

DefaultSettings ==
    [max_retries |-> 3, initial_timeout_ms |-> 30000, timeout_multiplier |-> 15,
     max_pages_per_hour |-> 10]

ScoutIdle ==
    /\ settings = DefaultSettings
    /\ now = 0
    /\ request_timestamps = <<>>
    /\ searches = [s \in Searches |-> NoSearch]
    /\ navigations = <<>>

\* No start request served: both module dicts empty.
Starts == 1..MaxStarts

StartListingIds == {"l1", "l2"}

\* f"neg_{request.listing_id}_{int(time.time())}"
make_negotiation_id(listing_id, t) == [listing_id |-> listing_id, second |-> t]

NegotiationIds == [listing_id : StartListingIds, second : 0..MaxClock]

NoStart == [pc |-> "new", negotiation_id |-> make_negotiation_id("l1", 0)]

\* An absent key of negotiation_data and of negotiation_streams.
NoEntry == [present |-> FALSE, created_by |-> 0, status |-> "none", written_by |-> {}]
NoQueue == [present |-> FALSE, created_by |-> 0, queue |-> <<>>]

StartIdle ==
    /\ clock = 0
    /\ starts = [r \in Starts |-> NoStart]
    /\ data_by_id = [id \in NegotiationIds |-> NoEntry]
    /\ streams_by_id = [id \in NegotiationIds |-> NoQueue]

---------------------------------------------------------------------------
\* The lowball flow: one session after NegotiationStateMachine.__init__.

Init ==
    /\ asking_price \in AskingPrices
    /\ max_budget \in Budgets
    /\ current_offer = 0
    /\ state = "idle"
    /\ round = 0
    /\ messages = <<>>
    /\ call = [NoCall0 EXCEPT !.pre.asking_price = asking_price,
                              !.pre.max_budget = max_budget]
    /\ AgentIdle
    /\ ManagerIdle
    /\ CalcIdle
    /\ ScoutIdle
    /\ StartIdle

Next ==
    \/ start
    \/ \E offer \in Offers \cup {current_offer} : send_offer(offer)
    \/ \E intent \in Intents, sc \in SellerCounters : receive_response(intent, sc)

Spec == Init /\ [][Next]_vars

\* The agent flow: the router module loaded, one negotiate request to come.

InitAgent ==
    /\ listing \in Listings
    /\ negotiation_data = NoData
    /\ negotiation_streams = NoStream
    /\ task = "none"
    /\ neg = NewNegotiationState
    /\ aborts = 0
    /\ SessionIdle
    /\ ManagerIdle
    /\ CalcIdle
    /\ ScoutIdle
    /\ StartIdle

NextAgent ==
    \/ start_negotiation_endpoint
    \/ run_negotiation_task_begin
    \/ run_negotiation_task_finish
    \/ abort_negotiation
    \/ stream_negotiation

SpecAgent == InitAgent /\ [][NextAgent]_vars

---------------------------------------------------------------------------
\* The pure calculations called on their own: _calculate_counter_offer
\* (state_machine.py) and POST /negotiate/bounds (routers/negotiate.py).

\* Inputs drawn for _calculate_counter_offer.
CalcOffers == {850, 900, 910}
CalcSellerCounters == {900, 930, 950, 1000}
CalcRounds == 1..6
CalcAskingPrices == {100, 1000}

\* Inputs drawn for the bounds request (whole dollars).
BoundsAskingPrices == {8, 500, 600, 800, 840, 850, 900, 1000}
BoundsMarketAvgs == {0, 1000, 1200}

\* One call of _calculate_counter_offer: the arguments are in calc.
call_calculate_counter_offer ==
    /\ calc.fn = "calculate_counter_offer"
    /\ ~calc.done
    /\ calc' = [calc EXCEPT !.done = TRUE,
                            !.result = calculate_counter_offer(
                                calc.current_offer, calc.seller_counter,
                                calc.round, calc.asking_price)]
    /\ UNCHANGED <<sessionVars, agentVars, managerVars, scoutVars, startVars>>

\* walk_away and target_price of the tier, in percent of asking_price.
walk_away_pct(tier) ==
    CASE tier = "accept" -> 100
      [] tier = "shrewd" -> 75
      [] tier = "moderate" -> 90
      [] tier = "lenient" -> 95

target_pct(tier) ==
    CASE tier = "accept" -> 100
      [] tier = "shrewd" -> 60
      [] tier = "moderate" -> 80
      [] tier = "lenient" -> 90

\* "Ensure walk_away > initial_offer for negotiation room" (cents).
repair_walk_away(walk_away, initial_offer) ==
    IF walk_away <= initial_offer THEN (initial_offer * 120) \div 100 ELSE walk_away

\* The bounds without "Cap walk_away at asking price".
negotiation_bounds_uncapped(asking, market_avg, deal_rating, age, override) ==
    LET tier == select_strategy(asking, market_avg, deal_rating, age, override)
        initial_offer == IF tier = "accept" THEN asking * 100
                         ELSE calculate_initial_offer(tier, asking) * 100
        walk_away == repair_walk_away(asking * walk_away_pct(tier), initial_offer)
    IN  [strategy_tier |-> tier,
         initial_offer |-> initial_offer,
         target_price |-> asking * target_pct(tier),
         walk_away_price |-> walk_away]

\* The NegotiationBoundsResponse amounts, in cents; asking in dollars.
negotiation_bounds(asking, market_avg, deal_rating, age, override) ==
    LET tier == select_strategy(asking, market_avg, deal_rating, age, override)
        initial_offer == IF tier = "accept" THEN asking * 100
                         ELSE calculate_initial_offer(tier, asking) * 100
        walk_away == repair_walk_away(asking * walk_away_pct(tier), initial_offer)
    IN  [strategy_tier |-> tier,
         initial_offer |-> initial_offer,
         target_price |-> asking * target_pct(tier),
         walk_away_price |-> Min(walk_away, asking * 100)]

\* One POST /negotiate/bounds: the request is in calc.
get_negotiation_bounds ==
    /\ calc.fn = "get_negotiation_bounds"
    /\ ~calc.done
    /\ LET b == negotiation_bounds(calc.asking_price, calc.market_avg,
                                   calc.deal_rating, calc.listing_age_days,
                                   calc.user_strategy)
       IN  calc' = [calc EXCEPT !.done = TRUE,
                                !.strategy_tier = b.strategy_tier,
                                !.initial_offer = b.initial_offer,
                                !.target_price = b.target_price,
                                !.walk_away_price = b.walk_away_price]
    /\ UNCHANGED <<sessionVars, agentVars, managerVars, scoutVars, startVars>>

\* The calls to make, with their arguments and nothing returned yet.
CounterOfferCalls ==
    [fn : {"calculate_counter_offer"}, done : {FALSE},
     current_offer : CalcOffers, seller_counter : CalcSellerCounters,
     round : CalcRounds, asking_price : CalcAskingPrices, result : {None}]

BoundsCalls ==
    [fn : {"get_negotiation_bounds"}, done : {FALSE},
     asking_price : BoundsAskingPrices, market_avg : BoundsMarketAvgs,
     deal_rating : DealRatings, listing_age_days : ListingAges,
     user_strategy : Overrides,
     strategy_tier : {"none"}, initial_offer : {None},
     target_price : {None}, walk_away_price : {None}]

InitCalc ==
    /\ calc \in CounterOfferCalls \cup BoundsCalls
    /\ SessionIdle
    /\ AgentIdle
    /\ ManagerIdle
    /\ ScoutIdle
    /\ StartIdle

NextCalc ==
    \/ call_calculate_counter_offer
    \/ get_negotiation_bounds

SpecCalc == InitCalc /\ [][NextCalc]_vars

---------------------------------------------------------------------------
\* services/negotiation/manager.py: one row of the negotiations table and the
\* update_negotiation calls made for it.  Each await of the coroutine ends a
\* step: other calls can run between the read of the row, the UPDATE and the
\* final read.

\* Listings, budgets and updates drawn by the model.
ManagerAskingPrices == {100}
ManagerBudgets == {70, 80}
ManagerUpdates ==
    [action : {"send_offer"}, offer : {60},
     intent : {"none"}, seller_counter : {None}]
    \cup
    [action : {"receive_response"}, offer : {None},
     intent : {"acceptance", "counter", "unclear"}, seller_counter : {None, 90}]

\* The row create_negotiation inserts: the session after machine.start().
created_row(asking, budget) ==
    [state |-> "composing", asking_price |-> asking,
     current_offer |-> start_offer(asking), max_budget |-> budget,
     round_number |-> 1, messages |-> <<>>]

\* "Reconstruct state machine" from the row.
reconstruct_machine(row) ==
    [state |-> row.state, asking_price |-> row.asking_price,
     current_offer |-> row.current_offer, max_budget |-> row.max_budget,
     round |-> row.round_number, messages |-> row.messages]

\* "Perform action" on the reconstructed machine: whether it raised, and the
\* machine afterwards.
perform_action(row, u) ==
    LET s == reconstruct_machine(row)
    IN  IF u.action = "send_offer"
        THEN IF ~can_send_offer(s.state)
             THEN [raised |-> TRUE, machine |-> s]
             ELSE [raised |-> FALSE,
                   machine |-> [s EXCEPT
                       !.current_offer = u.offer,
                       !.messages = record_message(s.messages, "user", u.offer),
                       !.state = "awaiting"]]
        ELSE IF ~can_receive_response(s.state)
             THEN [raised |-> TRUE, machine |-> s]
             ELSE LET o == response_outcome(s, u.intent, u.seller_counter)
                  IN  [raised |-> FALSE,
                       machine |-> [s EXCEPT
                           !.messages = record_message(s.messages, "seller",
                                                       u.seller_counter),
                           !.state = o.state,
                           !.round = o.round,
                           !.current_offer = o.current_offer]]

\* UPDATE negotiations SET state, current_offer, round_number, messages.
update_row(row, machine) ==
    [row EXCEPT !.state = machine.state,
                !.current_offer = machine.current_offer,
                !.round_number = machine.round,
                !.messages = machine.messages]

create_negotiation(asking, budget) ==
    /\ db = NoRow
    /\ db' = created_row(asking, budget)
    /\ UNCHANGED <<requests, sessionVars, agentVars, calcVars, scoutVars, startVars>>

\* update_negotiation up to its UPDATE: get_negotiation, the machine rebuilt
\* from the row, the action performed on it.  Calls are numbered in the
\* order they make this read.
update_negotiation_read(r, u) ==
    /\ requests[r].pc = "new"
    /\ \A q \in Requests : q < r => requests[q].pc # "new"
    /\ requests' = [requests EXCEPT ![r] =
          IF db = NoRow
          THEN [pc |-> "not_found"]
          ELSE LET res == perform_action(db, u)
               IN  IF res.raised
                   THEN [pc |-> "raised", update |-> u]
                   ELSE [pc |-> "updating", update |-> u, machine |-> res.machine]]
    /\ UNCHANGED <<db, sessionVars, agentVars, calcVars, scoutVars, startVars>>

\* The UPDATE statement.
update_negotiation_write(r) ==
    /\ requests[r].pc = "updating"
    /\ db' = update_row(db, requests[r].machine)
    /\ requests' = [requests EXCEPT ![r].pc = "updated"]
    /\ UNCHANGED <<sessionVars, agentVars, calcVars, scoutVars, startVars>>

\* "Return updated negotiation": the row read once more.
update_negotiation_return(r) ==
    /\ requests[r].pc = "updated"
    /\ requests' = [requests EXCEPT ![r] =
          [pc |-> "returned", update |-> requests[r].update, updated |-> db]]
    /\ UNCHANGED <<db, sessionVars, agentVars, calcVars, scoutVars, startVars>>

InitManager ==
    /\ ManagerIdle
    /\ SessionIdle
    /\ AgentIdle
    /\ CalcIdle
    /\ ScoutIdle
    /\ StartIdle

NextManager ==
    \/ \E asking \in ManagerAskingPrices, budget \in ManagerBudgets :
          create_negotiation(asking, budget)
    \/ \E r \in Requests, u \in ManagerUpdates : update_negotiation_read(r, u)
    \/ \E r \in Requests : update_negotiation_write(r)
    \/ \E r \in Requests : update_negotiation_return(r)

SpecManager == InitManager /\ [][NextManager]_vars

---------------------------------------------------------------------------
\* The scout: DealScoutAgent.search_deals (agent/deal_scout_agent.py) with
\* its RateLimiter, ChromeNavigator and ErrorHandler.  Each tool call awaited
\* by the coroutine ends a step; the clock moves between steps.  A search
\* record keeps, for the navigate_page and the wait_for retry loops, the
\* outcome of every attempt made (TRUE = the tool call succeeded), the number
\* of the attempt whose exception left retry_with_backoff (0 = none) and the
\* timeout_ms of every navigate_page call issued.

\* timedelta(hours=1), in ticks.
Hour == 2

\* Settings drawn by the model.
ScoutMaxRetries == {1, 2}
ScoutMaxPagesPerHour == {1, 2}

RECURSIVE Pow(_, _)
Pow(b, n) == IF n = 0 THEN 1 ELSE b * Pow(b, n - 1)

\* ErrorHandler.__init__: RetryConfig(max_retries, timeout_multiplier), the
\* initial_timeout_ms left at its default.
error_handler_config(st) ==
    [max_retries |-> st.max_retries, initial_timeout_ms |-> 30000,
     timeout_multiplier |-> st.timeout_multiplier]

\* RetryConfig.get_timeout: int(initial_timeout_ms * timeout_multiplier ** attempt),
\* timeout_multiplier in tenths.
get_timeout(cfg, attempt) ==
    Trunc(cfg.initial_timeout_ms * Pow(cfg.timeout_multiplier, attempt), Pow(10, attempt))

\* "Update timeout in kwargs if operation accepts it".
retry_kwargs(kwargs, timeout) ==
    IF "timeout_ms" \in DOMAIN kwargs
    THEN [kwargs EXCEPT !["timeout_ms"] = timeout]
    ELSE kwargs

\* The kwargs navigate_to_url hands to retry_with_backoff(_navigate): none.
navigate_kwargs == <<>>

\* The timeout_ms _navigate puts in the navigate_page tool call made with
\* kwargs: the timeout_ms argument of navigate_to_url.
navigate_page_timeout(timeout_ms, kwargs) == timeout_ms

\* The timeout_ms taken from the retry loop's kwargs.
navigate_page_timeout_escalated(timeout_ms, kwargs) ==
    IF "timeout_ms" \in DOMAIN kwargs THEN kwargs["timeout_ms"] ELSE timeout_ms

\* The timeout_ms of the navigate_page call of the attempt.
attempt_timeout(st, attempt) ==
    navigate_page_timeout(
        st.initial_timeout_ms,
        retry_kwargs(navigate_kwargs, get_timeout(error_handler_config(st), attempt)))

\* The last attempt taken to be the one after range(max_retries).
is_last_attempt_late(attempt, max_retries) == attempt = max_retries

\* "If this was the last attempt, don't wait".
is_last_attempt(attempt, max_retries) == attempt = max_retries - 1

\* check_hourly_limit: the timestamps of the last hour, and whether they are
\* fewer than the limit.
last_hour(timestamps, t) == SelectSeq(timestamps, LAMBDA ts : ts > t - Hour)

under_hourly_limit(timestamps, limit) == Len(timestamps) < limit

\* search_deals up to its first tool call: check_hourly_limit, the URL built,
\* navigate_and_wait -> navigate_to_url -> retry_with_backoff, attempt 0.
\* Calls are numbered in the order they are made.
search_deals_begin(s) ==
    /\ searches[s].pc = "new"
    /\ \A q \in Searches : q < s => searches[q].pc # "new"
    /\ LET kept == last_hour(request_timestamps, now)
       IN  /\ request_timestamps' = kept
           /\ IF under_hourly_limit(kept, settings.max_pages_per_hour)
              THEN /\ searches' = [searches EXCEPT ![s] =
                          [NoSearch EXCEPT !.pc = "navigate",
                                           !.timeouts = <<attempt_timeout(settings, 0)>>]]
                   /\ navigations' = Append(navigations, now)
              ELSE /\ searches' = [searches EXCEPT ![s].pc = "limit_reached"]
                   /\ UNCHANGED navigations
    /\ UNCHANGED <<settings, now>>
    /\ UNCHANGED <<sessionVars, agentVars, managerVars, calcVars, startVars>>

\* The tool call of the running attempt returns to retry_with_backoff: a
\* success ends the loop (and navigate_and_wait goes on to wait_for_page_load,
\* then to dismiss_login_modal); a failure is followed by the backoff sleep
\* or, after the last attempt, leaves search_deals with its exception.
call_tool_returns(s, ok) ==
    LET r == searches[s]
        op == r.pc
        logged == [r EXCEPT ![op] = Append(r[op], ok)]
    IN  /\ op \in {"navigate", "wait_for"}
        /\ searches' = [searches EXCEPT ![s] =
              IF ok
              THEN [logged EXCEPT !.pc = IF op = "navigate" THEN "wait_for"
                                         ELSE "dismiss_login_modal",
                                  !.attempt = 0]
              ELSE IF is_last_attempt(r.attempt, settings.max_retries)
              THEN [logged EXCEPT !.pc = "failed", !.raised = r.attempt + 1]
              ELSE [logged EXCEPT !.pc = IF op = "navigate" THEN "navigate_backoff"
                                         ELSE "wait_for_backoff"]]
        /\ UNCHANGED <<settings, now, request_timestamps, navigations>>
        /\ UNCHANGED <<sessionVars, agentVars, managerVars, calcVars, startVars>>

\* asyncio.sleep(backoff_delay) is over: the next attempt's tool call.
backoff_elapsed(s) ==
    LET r == searches[s]
    IN  /\ r.pc \in {"navigate_backoff", "wait_for_backoff"}
        /\ IF r.pc = "navigate_backoff"
           THEN /\ searches' = [searches EXCEPT ![s] =
                      [r EXCEPT !.pc = "navigate",
                                !.attempt = r.attempt + 1,
                                !.timeouts = Append(r.timeouts,
                                    attempt_timeout(settings, r.attempt + 1))]]
                /\ navigations' = Append(navigations, now)
           ELSE /\ searches' = [searches EXCEPT ![s] =
                      [r EXCEPT !.pc = "wait_for", !.attempt = r.attempt + 1]]
                /\ UNCHANGED navigations
        /\ UNCHANGED <<settings, now, request_timestamps>>
        /\ UNCHANGED <<sessionVars, agentVars, managerVars, calcVars, startVars>>

\* dismiss_login_modal returns (it never raises): navigate_and_wait is over,
\* search_deals calls record_request and runs to its end (scroll, extract,
\* filter, alerts, session saved; none of it touches the rate limiter): it
\* returns the alerts or leaves with an exception.  The account of the two
\* retry loops is dropped here.
search_deals_finish(s, ok) ==
    /\ searches[s].pc = "dismiss_login_modal"
    /\ request_timestamps' = Append(request_timestamps, now)
    /\ searches' = [searches EXCEPT ![s] =
          [NoSearch EXCEPT !.pc = IF ok THEN "done" ELSE "failed"]]
    /\ UNCHANGED <<settings, now, navigations>>
    /\ UNCHANGED <<sessionVars, agentVars, managerVars, calcVars, startVars>>

\* Time passes.
tick ==
    /\ now < MaxTime
    /\ now' = now + 1
    /\ UNCHANGED <<settings, request_timestamps, searches, navigations>>
    /\ UNCHANGED <<sessionVars, agentVars, managerVars, calcVars, startVars>>

InitScout ==
    /\ settings \in [max_retries : ScoutMaxRetries,
                     initial_timeout_ms : {DefaultSettings.initial_timeout_ms},
                     timeout_multiplier : {DefaultSettings.timeout_multiplier},
                     max_pages_per_hour : ScoutMaxPagesPerHour]
    /\ now = 0
    /\ request_timestamps = <<>>
    /\ searches = [s \in Searches |-> NoSearch]
    /\ navigations = <<>>
    /\ SessionIdle
    /\ AgentIdle
    /\ ManagerIdle
    /\ CalcIdle
    /\ StartIdle

NextScout ==
    \/ \E s \in Searches : search_deals_begin(s)
    \/ \E s \in Searches, ok \in BOOLEAN : call_tool_returns(s, ok)
    \/ \E s \in Searches : backoff_elapsed(s)
    \/ \E s \in Searches, ok \in BOOLEAN : search_deals_finish(s, ok)
    \/ tick

SpecScout == InitScout /\ [][NextScout]_vars

---------------------------------------------------------------------------
\* POST /negotiate/start served for several requests (routers/negotiate.py).
\* Every entry and every queued event carries the request it was written
\* for (created_by, written_by, by), which the code does not keep.

\* start_negotiation_endpoint for request r on listing listing_id: both
\* dicts are assigned at the id, whatever they held there.
start_negotiation_endpoint_for(r, listing_id) ==
    /\ starts[r].pc = "new"
    /\ \A q \in Starts : q < r => starts[q].pc # "new"
    /\ LET id == make_negotiation_id(listing_id, clock)
       IN  /\ data_by_id' = [data_by_id EXCEPT ![id] =
                                [present |-> TRUE, created_by |-> r,
                                 status |-> "starting", written_by |-> {}]]
           /\ streams_by_id' = [streams_by_id EXCEPT ![id] =
                                   [present |-> TRUE, created_by |-> r, queue |-> <<>>]]
           /\ starts' = [starts EXCEPT ![r] = [pc |-> "running", negotiation_id |-> id]]
    /\ UNCHANGED clock
    /\ UNCHANGED <<sessionVars, agentVars, managerVars, calcVars, scoutVars>>

\* status_callback of the task of request r, with a state_update.
status_callback(r) ==
    /\ starts[r].pc = "running"
    /\ LET id == starts[r].negotiation_id
       IN  /\ streams_by_id' =
                  IF streams_by_id[id].present
                  THEN [streams_by_id EXCEPT ![id].queue =
                            Append(@, [type |-> "state_update", by |-> r])]
                  ELSE streams_by_id
           /\ data_by_id' =
                  IF data_by_id[id].present
                  THEN [data_by_id EXCEPT ![id].written_by = @ \cup {r}]
                  ELSE data_by_id
    /\ starts' = [starts EXCEPT ![r].pc = "updated"]
    /\ UNCHANGED clock
    /\ UNCHANGED <<sessionVars, agentVars, managerVars, calcVars, scoutVars>>

\* run_negotiation_task of request r after start_negotiation returned or
\* raised: the status is stored and the last event queued.
run_negotiation_task_end(r, status) ==
    /\ starts[r].pc \in {"running", "updated"}
    /\ LET id == starts[r].negotiation_id
       IN  /\ data_by_id' =
                  IF data_by_id[id].present
                  THEN [data_by_id EXCEPT ![id].status = status,
                                          ![id].written_by = @ \cup {r}]
                  ELSE data_by_id
           /\ streams_by_id' =
                  IF streams_by_id[id].present
                  THEN [streams_by_id EXCEPT ![id].queue =
                            Append(@, [type |-> IF status = "error" THEN "error"
                                                ELSE "negotiation_complete",
                                       by |-> r])]
                  ELSE streams_by_id
    /\ starts' = [starts EXCEPT ![r].pc = "done"]
    /\ UNCHANGED clock
    /\ UNCHANGED <<sessionVars, agentVars, managerVars, calcVars, scoutVars>>

\* time.time() passes into the next second.
clock_tick ==
    /\ clock < MaxClock
    /\ clock' = clock + 1
    /\ UNCHANGED <<starts, data_by_id, streams_by_id>>
    /\ UNCHANGED <<sessionVars, agentVars, managerVars, calcVars, scoutVars>>

InitStart ==
    /\ StartIdle
    /\ SessionIdle
    /\ AgentIdle
    /\ ManagerIdle
    /\ CalcIdle
    /\ ScoutIdle

NextStart ==
    \/ \E r \in Starts, l \in StartListingIds : start_negotiation_endpoint_for(r, l)
    \/ \E r \in Starts : status_callback(r)
    \/ \E r \in Starts, status \in {"completed", "error"} :
           run_negotiation_task_end(r, status)
    \/ clock_tick

SpecStart == InitStart /\ [][NextStart]_vars

---------------------------------------------------------------------------
\* Properties of the lowball flow (checked under Spec).

\* The computed candidate of the counter response recorded in call.
Candidate ==
    calculate_counter_offer(call.pre.current_offer, call.seller_counter,
                            call.pre.round + 1, asking_price)

\* call records a counter response the session accepted and handled.
CounterHandled ==
    /\ call.op = "receive_response"
    /\ ~call.raised
    /\ call.intent = "counter"
    /\ call.seller_counter # None
    /\ call.seller_counter # 0

\* C1: an operation invoked from a state that does not permit it (any of the
\* three after Accepted, Rejected or Abandoned; start outside Idle;
\* send_offer while Awaiting; receive_response outside Awaiting) raises and
\* leaves state, current_offer, round, max_budget and messages as they were.
C1_RejectedBeforeMutation ==
    LET notPermitted ==
            \/ call.op \in {"start", "send_offer", "receive_response"}
               /\ call.pre.state \in TerminalStates
            \/ call.op = "start" /\ call.pre.state # "idle"
            \/ call.op = "send_offer" /\ call.pre.state = "awaiting"
            \/ call.op = "receive_response" /\ call.pre.state # "awaiting"
    IN  notPermitted =>
            /\ call.raised
            /\ state = call.pre.state
            /\ current_offer = call.pre.current_offer
            /\ round = call.pre.round
            /\ max_budget = call.pre.max_budget
            /\ messages = call.pre.messages

\* A receive_response made after the session ended has been rejected.
C1_Witness ==
    /\ call.op = "receive_response"
    /\ call.raised
    /\ call.pre.state \in TerminalStates
    /\ Len(messages) >= 2

\* C2: the offer a counter response produces on the Countering path never
\* exceeds max_budget, and the final offer is exactly max_budget.
C2_OfferWithinBudget ==
    (CounterHandled /\ state = "countering") =>
        /\ call.suggested_offer # None
        /\ call.suggested_offer <= max_budget
        /\ call.recommended_action = "final_offer" => call.suggested_offer = max_budget

\* A counter was answered with a counter-offer below the budget, computed
\* from a seller counter above the budget.
C2_Witness ==
    /\ CounterHandled
    /\ state = "countering"
    /\ call.recommended_action = "counter"
    /\ call.suggested_offer < max_budget
    /\ call.seller_counter > max_budget

\* C3: no buyer message of the session carries an amount above max_budget.
C3_BuyerNeverAboveWalkAway ==
    \A i \in 1..Len(messages) :
        messages[i].role = "user" => messages[i].amount <= max_budget

\* C4: send_offer is accepted exactly from Composing and Countering; accepted,
\* it appends one buyer message with the amount, sets current_offer to it and
\* leaves the session Awaiting; from any other state it fails.
C4_SendOfferFromComposingOrCountering ==
    call.op = "send_offer" =>
        IF call.pre.state \in {"composing", "countering"}
        THEN /\ ~call.raised
             /\ state = "awaiting"
             /\ current_offer = call.offer
             /\ messages = Append(call.pre.messages,
                                  [role |-> "user", amount |-> call.offer])
        ELSE call.raised

\* Market signals a listing may carry, for the tier StrategySelector picks.
MarketAvgs == {0, 100, 120, 200, 400}

\* C5 as stated: start() leaves Composing, round 1 and current_offer equal to
\* the initial offer of the tier StrategySelector picks for the listing.  The
\* session's listing carries no market signals; the statement is taken in its
\* weakest form, for some signals the listing could have.
C5_StartUsesTierOffer ==
    (call.op = "start" /\ ~call.raised) =>
        /\ state = "composing"
        /\ round = 1
        /\ \E m \in MarketAvgs, d \in DealRatings, a \in ListingAges, o \in Overrides :
               current_offer =
                   calculate_initial_offer(select_strategy(asking_price, m, d, a, o),
                                           asking_price)

\* C5 amended: start() from Idle leaves Composing, round 1 and current_offer
\* = asking_price * 0.65 truncated to an integer, whatever the tier.
C5_StartOffers65Percent ==
    (call.op = "start" /\ ~call.raised) =>
        /\ call.pre.state = "idle"
        /\ state = "composing"
        /\ round = 1
        /\ current_offer * 100 <= asking_price * 65
        /\ asking_price * 65 < (current_offer + 1) * 100
        /\ call.suggested_offer = current_offer

\* start() has run on a listing with a price.
C5_Witness ==
    /\ call.op = "start"
    /\ ~call.raised
    /\ asking_price > 0
    /\ current_offer > 0

\* C6 as stated: a counter whose candidate is within max_budget makes
\* current_offer the candidate and the state Countering.
C6_CounterSetsCurrentOffer ==
    (CounterHandled /\ Candidate <= max_budget) =>
        /\ state = "countering"
        /\ current_offer = Candidate

\* C6 amended: a counter whose candidate is within max_budget moves the
\* session to Countering and returns the candidate as suggested_offer with
\* recommended_action "counter"; current_offer stays the last offer sent.
C6_CounterSuggestsCandidate ==
    (CounterHandled /\ Candidate <= max_budget) =>
        /\ state = "countering"
        /\ call.recommended_action = "counter"
        /\ call.suggested_offer = Candidate
        /\ current_offer = call.pre.current_offer

\* A candidate within budget that differs from the offer sent was suggested.
C6_Witness ==
    /\ CounterHandled
    /\ Candidate <= max_budget
    /\ Candidate # call.pre.current_offer
    /\ state = "countering"

\* C7 as stated: a candidate above max_budget with seller_counter within 5%
\* of it makes current_offer exactly max_budget in Countering; otherwise the
\* session is Abandoned.
C7_FinalOfferSetsCurrentOffer ==
    (CounterHandled /\ Candidate > max_budget) =>
        IF call.seller_counter * 100 <= max_budget * 105
        THEN state = "countering" /\ current_offer = max_budget
        ELSE state = "abandoned"

\* C7 amended: a candidate above max_budget with seller_counter <=
\* max_budget * 1.05 moves the session to Countering and returns max_budget
\* as suggested_offer with recommended_action "final_offer"; otherwise the
\* session is Abandoned; current_offer stays the last offer sent either way.
C7_FinalOfferSuggestsBudget ==
    (CounterHandled /\ Candidate > max_budget) =>
        /\ current_offer = call.pre.current_offer
        /\ IF call.seller_counter * 100 <= max_budget * 105
           THEN /\ state = "countering"
                /\ call.recommended_action = "final_offer"
                /\ call.suggested_offer = max_budget
           ELSE /\ state = "abandoned"
                /\ call.recommended_action = "walk_away"

\* A final offer at the budget was suggested.
C7_Witness ==
    /\ CounterHandled
    /\ Candidate > max_budget
    /\ call.recommended_action = "final_offer"
    /\ call.suggested_offer = max_budget
    /\ current_offer # max_budget

\* The seller's counter of the response recorded in call, if one was given.
CounterGiven == call.seller_counter # None /\ call.seller_counter # 0

\* C8 as stated: an Acceptance moves Awaiting to Accepted and records
\* agreed_price = seller_counter when supplied, else current_offer.
C8_AcceptanceRecordsAgreedPrice ==
    (call.op = "receive_response" /\ ~call.raised /\ call.intent = "acceptance") =>
        /\ call.pre.state = "awaiting"
        /\ state = "accepted"
        /\ call.agreed_price =
               IF CounterGiven THEN call.seller_counter ELSE call.pre.current_offer

\* C8 amended: an Acceptance moves Awaiting to Accepted and appends the seller
\* message; it records no agreed price: the result is recommended_action
\* "accept" only, and current_offer and round stay as they were, with or
\* without a seller_counter.
C8_AcceptanceRecordsNoPrice ==
    (call.op = "receive_response" /\ ~call.raised /\ call.intent = "acceptance") =>
        /\ call.pre.state = "awaiting"
        /\ state = "accepted"
        /\ call.recommended_action = "accept"
        /\ call.agreed_price = None
        /\ call.suggested_offer = None
        /\ current_offer = call.pre.current_offer
        /\ round = call.pre.round
        /\ messages = Append(call.pre.messages,
                             [role |-> "seller", amount |-> call.seller_counter])

\* An acceptance that came with a seller counter other than the offer sent.
C8_Witness ==
    /\ call.op = "receive_response"
    /\ ~call.raised
    /\ call.intent = "acceptance"
    /\ CounterGiven
    /\ call.seller_counter # current_offer
    /\ state = "accepted"

\* C9: a receive_response made while Awaiting is not an error, and with intent
\* Unclear it leaves the session Awaiting with round, current_offer and
\* max_budget unchanged, appending the seller message and nothing else.
C9_UnclearOnlyAppends ==
    /\ (call.op = "receive_response" /\ call.pre.state = "awaiting") => ~call.raised
    /\ (call.op = "receive_response" /\ ~call.raised /\ call.intent = "unclear") =>
           /\ state = "awaiting"
           /\ round = call.pre.round
           /\ current_offer = call.pre.current_offer
           /\ max_budget = call.pre.max_budget
           /\ asking_price = call.pre.asking_price
           /\ messages = Append(call.pre.messages,
                                [role |-> "seller", amount |-> call.seller_counter])
           /\ call.recommended_action = "clarify"

\* An Unclear response that carried a counter amount was taken.
C9_Witness ==
    /\ call.op = "receive_response"
    /\ ~call.raised
    /\ call.intent = "unclear"
    /\ CounterGiven
    /\ Len(messages) = 2

C12_MessagesAppendOnly ==
    LET n == Len(call.pre.messages)
    IN  IF call.op \in {"send_offer", "receive_response"} /\ ~call.raised
        THEN /\ Len(messages) = n + 1
             /\ SubSeq(messages, 1, n) = call.pre.messages
             /\ messages[n + 1] =
                    IF call.op = "send_offer"
                    THEN [role |-> "user", amount |-> call.offer]
                    ELSE [role |-> "seller", amount |-> call.seller_counter]
        ELSE messages = call.pre.messages

\* A seller message was appended after two earlier messages.
C12_Witness ==
    /\ call.op = "receive_response"
    /\ ~call.raised
    /\ Len(call.pre.messages) = 2
    /\ Len(messages) = 3
    /\ messages[1].role = "user"

\* C14 as stated: a receive_response with intent counter and no
\* seller_counter is rejected with an error and appends no message.
C14_MissingCounterRejected ==
    (call.op = "receive_response" /\ call.pre.state = "awaiting"
     /\ call.intent = "counter" /\ call.seller_counter = None) =>
        /\ call.raised
        /\ messages = call.pre.messages

\* C14 amended: a receive_response made while Awaiting never raises; with
\* intent counter and no seller_counter it appends the seller message (amount
\* None), stays Awaiting with round and current_offer unchanged and returns
\* recommended_action "clarify".
C14_MissingCounterClarifies ==
    /\ (call.op = "receive_response" /\ call.pre.state = "awaiting") => ~call.raised
    /\ (call.op = "receive_response" /\ ~call.raised
        /\ call.intent = "counter" /\ call.seller_counter = None) =>
           /\ messages = Append(call.pre.messages,
                                [role |-> "seller", amount |-> None])
           /\ state = "awaiting"
           /\ round = call.pre.round
           /\ current_offer = call.pre.current_offer
           /\ call.recommended_action = "clarify"

\* A counter intent without an amount was taken.
C14_Witness ==
    /\ call.op = "receive_response"
    /\ ~call.raised
    /\ call.intent = "counter"
    /\ call.seller_counter = None
    /\ Len(messages) = 2

\* C15 as stated: start() on a listing with asking_price <= 0 is rejected and
\* the session stays Idle with round 0 and no offer.
C15_StartRejectsNoPrice ==
    (call.op = "start" /\ call.pre.state = "idle" /\ asking_price <= 0) =>
        /\ call.raised
        /\ state = "idle"
        /\ round = 0
        /\ current_offer = 0

\* C15 amended: start() on an Idle session whose listing has no price or
\* price 0 is not rejected: the session moves to Composing with round 1 and
\* current_offer 0.
C15_StartAcceptsNoPrice ==
    (call.op = "start" /\ call.pre.state = "idle" /\ asking_price = 0) =>
        /\ ~call.raised
        /\ state = "composing"
        /\ round = 1
        /\ current_offer = 0
        /\ call.suggested_offer = 0

\* start() has run on a listing without a price.
C15_Witness ==
    /\ call.op = "start"
    /\ call.pre.state = "idle"
    /\ asking_price = 0
    /\ state = "composing"

---------------------------------------------------------------------------
\* Properties of the agent flow (checked under SpecAgent).

\* C10: once abort has set the negotiation's status to aborted, no later step
\* (of the negotiation task in particular) changes that status.
C10_AbortedStaysAborted ==
    [][negotiation_data.status = "aborted" => negotiation_data'.status = "aborted"]_vars

---------------------------------------------------------------------------
\* Properties of the persisted negotiation (checked under SpecManager).

\* The update_negotiation calls that found the row, and whether all of them
\* have finished.
FoundRow == {r \in Requests : requests[r].pc \notin {"new", "not_found"}}
AllFinished == \A r \in FoundRow : requests[r].pc \in {"raised", "returned"}

\* The orders in which the calls of S can run one after the other.
Orders(S) ==
    {o \in [1..Cardinality(S) -> S] :
        \A i, j \in 1..Cardinality(S) : i # j => o[i] # o[j]}

\* Running the calls order[i], order[i+1], ... one after the other on row
\* gives each call the outcome it had (raised or not, a call that raises
\* leaving the row as it was) and ends with the persisted row.
RECURSIVE Serializes(_, _, _)
Serializes(row, order, i) ==
    IF i > Len(order) THEN row = db
    ELSE LET res == perform_action(row, requests[order[i]].update)
         IN  /\ res.raised = (requests[order[i]].pc = "raised")
             /\ Serializes(IF res.raised THEN row ELSE update_row(row, res.machine),
                           order, i + 1)

\* C13: when update_negotiation calls for one negotiation overlap, the
\* persisted row equals the result of running them one after the other in
\* some order: no appended message or round increment is lost and no
\* operation is applied to a stale state.
C13_UpdatesSerialized ==
    (db # NoRow /\ AllFinished) =>
        \E order \in Orders(FoundRow) :
            Serializes(created_row(db.asking_price, db.max_budget), order, 1)

---------------------------------------------------------------------------
\* Properties of the calculations (checked under SpecCalc).

\* calc holds a finished call of the function.
CalcIsCounterOffer == calc.fn = "calculate_counter_offer" /\ calc.done
CalcIsBounds == calc.fn = "get_negotiation_bounds" /\ calc.done

\* C16 as stated: when seller_counter and current_offer are less than 5% of
\* asking_price apart, the next offer is the midpoint of seller_counter and
\* current_offer, in every round.
C16_MidpointOfCurrentOffer ==
    (CalcIsCounterOffer
     /\ Abs(calc.seller_counter - calc.current_offer) * 100 < calc.asking_price * 5) =>
        calc.result = Trunc(calc.seller_counter + calc.current_offer, 2)

\* C16 amended: with scheduled = current_offer + (seller_counter -
\* current_offer) x the round's concession rate (50, 40, 30, 20 %, then 15 %
\* from round 5 on): when seller_counter and scheduled are less than 5% of
\* asking_price apart the next offer is the midpoint of seller_counter and
\* scheduled, truncated to an integer; otherwise it is scheduled, truncated.
C16_MidpointOfScheduledOffer ==
    CalcIsCounterOffer =>
        LET rate == IF calc.round >= 5 THEN 15 ELSE concession_rates[calc.round]
            scheduled100 == calc.current_offer * 100
                            + (calc.seller_counter - calc.current_offer) * rate
        IN  IF Abs(calc.seller_counter * 100 - scheduled100) < calc.asking_price * 5
            THEN calc.result = Trunc(calc.seller_counter * 100 + scheduled100, 200)
            ELSE calc.result = Trunc(scheduled100, 100)

\* current_offer 900, seller_counter 930, round 2, asking 1000: scheduled is
\* 912 and the next offer 921, not 915.
C16_Witness ==
    /\ CalcIsCounterOffer
    /\ calc.current_offer = 900
    /\ calc.seller_counter = 930
    /\ calc.round = 2
    /\ calc.asking_price = 1000
    /\ calc.result = 921

\* Shrewd > Moderate > Lenient > Accept.
Aggressiveness(tier) ==
    CASE tier = "shrewd" -> 3
      [] tier = "moderate" -> 2
      [] tier = "lenient" -> 1
      [] tier = "accept" -> 0

\* The tier select_strategy returns for the request in calc with another
\* asking_price.
TierAtAskingPrice(asking) ==
    select_strategy(asking, calc.market_avg, calc.deal_rating,
                    calc.listing_age_days, calc.user_strategy)

\* C17 as stated: with everything else fixed, a lower asking_price never
\* gets a less aggressive tier.
C17_LowerPriceNeverLessAggressive ==
    CalcIsBounds =>
        \A asking \in BoundsAskingPrices :
            asking < calc.asking_price =>
                Aggressiveness(TierAtAskingPrice(asking))
                    >= Aggressiveness(calc.strategy_tier)

\* C17 amended: with market_avg, deal_rating, listing age and override fixed,
\* a lower asking_price never gets a more aggressive tier.
C17_LowerPriceNeverMoreAggressive ==
    CalcIsBounds =>
        \A asking \in BoundsAskingPrices :
            asking < calc.asking_price =>
                Aggressiveness(TierAtAskingPrice(asking))
                    <= Aggressiveness(calc.strategy_tier)

\* A listing at market price is Shrewd; the same listing at 850 is Moderate,
\* at 800 Lenient and at 500 Accept.
C17_Witness ==
    /\ CalcIsBounds
    /\ calc.asking_price = 1000
    /\ calc.market_avg = 1000
    /\ calc.deal_rating = "GOOD"
    /\ calc.user_strategy = ""
    /\ calc.listing_age_days = None
    /\ calc.strategy_tier = "shrewd"
    /\ TierAtAskingPrice(850) = "moderate"
    /\ TierAtAskingPrice(800) = "lenient"
    /\ TierAtAskingPrice(500) = "accept"

\* C18: the bounds preview returns walk_away_price >= initial_offer for every
\* asking_price > 0 and every tier.
C18_WalkAwayAtLeastInitialOffer ==
    (CalcIsBounds /\ calc.asking_price > 0) =>
        calc.walk_away_price >= calc.initial_offer

\* C19: with no override the tier is Accept exactly when deal_rating is HOT
\* or the discount (market_avg - asking_price) / market_avg, 0 when
\* market_avg <= 0, exceeds 0.40; the listing age plays no part.
C19_AcceptIffGreatDeal ==
    (CalcIsBounds /\ calc.user_strategy = "") =>
        (calc.strategy_tier = "accept" <=>
            \/ calc.deal_rating = "HOT"
            \/ /\ calc.market_avg > 0
               /\ (calc.market_avg - calc.asking_price) * 100 > 40 * calc.market_avg)

\* An old listing rated GOOD at half the market price is Accept.
C19_Witness ==
    /\ CalcIsBounds
    /\ calc.user_strategy = ""
    /\ calc.deal_rating = "GOOD"
    /\ calc.listing_age_days = 20
    /\ calc.asking_price = 500
    /\ calc.market_avg = 1000
    /\ calc.strategy_tier = "accept"

\* The request in calc is rated GOOD, has no age and no override, and its
\* discount is at least 10% and below 20%.
GoodWithSmallDiscount ==
    /\ CalcIsBounds
    /\ calc.deal_rating = "GOOD"
    /\ calc.listing_age_days = None
    /\ calc.user_strategy = ""
    /\ calc.market_avg > 0
    /\ (calc.market_avg - calc.asking_price) * 100 >= 10 * calc.market_avg
    /\ (calc.market_avg - calc.asking_price) * 100 < 20 * calc.market_avg

\* v (cents) is amount/100 dollars rounded to a nearest multiple of 10 dollars.
IsNearestTen(v, amount) ==
    /\ v % 1000 = 0
    /\ Abs(v - amount) <= 500

\* C20 as stated: a GOOD listing with no age, no override and a discount
\* between 10% and 20% is Lenient and opens at asking_price x 0.85 rounded to
\* the nearest 10.
C20_GoodDiscountIsLenient ==
    GoodWithSmallDiscount =>
        /\ calc.strategy_tier = "lenient"
        /\ IsNearestTen(calc.initial_offer, calc.asking_price * 85)

\* C20 amended: such a listing is Moderate and opens at asking_price x 0.70
\* rounded to the nearest 10.
C20_GoodDiscountIsModerate ==
    GoodWithSmallDiscount =>
        /\ calc.strategy_tier = "moderate"
        /\ IsNearestTen(calc.initial_offer, calc.asking_price * 70)

\* asking_price 1000, market_avg 1200: Moderate, initial offer 700.
C20_Witness ==
    /\ GoodWithSmallDiscount
    /\ calc.asking_price = 1000
    /\ calc.market_avg = 1200
    /\ calc.strategy_tier = "moderate"
    /\ calc.initial_offer = 70000

---------------------------------------------------------------------------
\* Properties of the scout (checked under SpecScout).

\* The retry loop op of search record r stands as retry_with_backoff leaves
\* it: at most max_retries calls made, none after a success; when the loop is
\* over it either returned on its first success, or every one of max_retries
\* calls failed and the exception of the last one was raised.
RetryLoopAsSpecified(r, op) ==
    LET h == r[op]
        n == Len(h)
        calling == r.pc = op
        sleeping == r.pc = (IF op = "navigate" THEN "navigate_backoff"
                            ELSE "wait_for_backoff")
        calls == IF calling THEN n + 1 ELSE n
    IN  /\ calls <= settings.max_retries
        /\ \A i \in 1..(n - 1) : ~h[i]
        /\ (calling \/ sleeping) => (\A i \in 1..n : ~h[i]) /\ r.attempt + 1 = calls
        /\ (n > 0 /\ ~calling /\ ~sleeping) =>
              \/ h[n] /\ (r.raised = 0 \/ op = "navigate")
              \/ /\ ~h[n]
                 /\ n = settings.max_retries
                 /\ r.raised = n
                 /\ r.pc = "failed"

\* C21: retry_with_backoff attempts the operation until its first success or
\* until max_retries attempts have failed: a first success at attempt N makes
\* exactly N calls and returns, with no further attempt; when every attempt
\* fails exactly max_retries calls are made and the last attempt's exception
\* is raised.
C21_RetryUntilSuccessOrExhausted ==
    \A s \in Searches :
        /\ RetryLoopAsSpecified(searches[s], "navigate")
        /\ RetryLoopAsSpecified(searches[s], "wait_for")

\* A navigation that succeeded at its second attempt, followed by a wait_for
\* that failed twice and raised the second failure.
C21_Witness ==
    \E s \in Searches :
        /\ settings.max_retries = 2
        /\ searches[s].navigate = <<FALSE, TRUE>>
        /\ searches[s].wait_for = <<FALSE, FALSE>>
        /\ searches[s].raised = 2
        /\ searches[s].pc = "failed"

\* C22: every retry of a failed navigation is issued with a timeout strictly
\* greater than the timeout of the attempt before it.
C22_RetryTimeoutEscalates ==
    \A s \in Searches :
        \A i \in 2..Len(searches[s].timeouts) :
            searches[s].timeouts[i] > searches[s].timeouts[i - 1]

\* The navigate_page calls issued in the hour that ends at time t.
NavigationsInHour(t) ==
    Cardinality({i \in DOMAIN navigations :
                    navigations[i] > t - Hour /\ navigations[i] <= t})

\* C23: in any one-hour window the number of navigations issued through
\* search_deals never exceeds max_pages_per_hour, retried navigations and
\* overlapping searches included.
C23_HourlyLimitRespected ==
    \A t \in 0..MaxTime : NavigationsInHour(t) <= settings.max_pages_per_hour

---------------------------------------------------------------------------
\* Further properties of the calculations (checked under SpecCalc).

\* The schedule of the specification, in percent, indexed by
\* min(round - 1, 4) counted from 0.
ReferenceRate(rnd) ==
    LET i == Min(rnd - 1, 4)
    IN  CASE i = 0 -> 50 [] i = 1 -> 40 [] i = 2 -> 30 [] i = 3 -> 20 [] i = 4 -> 15

\* The reference computation, amounts times 100 until the truncation.
ReferenceCounterOffer(cur, seller_counter, rnd, asking) ==
    LET raw100 == cur * 100
                  + (seller_counter - cur) * ReferenceRate(rnd)
        apart100 == Abs(seller_counter * 100 - raw100)
    IN  IF apart100 < asking * 5
        THEN Trunc(seller_counter * 100 + raw100, 200)
        ELSE Trunc(raw100, 100)

\* C24: for every current_offer, seller_counter, round >= 1 and
\* asking_price, _calculate_counter_offer returns the reference value: raw =
\* current_offer + (seller_counter - current_offer) x rate of the round; the
\* truncated midpoint of seller_counter and raw if they are strictly less
\* than 5% of asking_price apart, the truncated raw otherwise.  So
\* 850/950/round 1/asking 1000 gives 900 and 900/930/round 2 gives 921.
C24_CounterOfferIsReference ==
    /\ CalcIsCounterOffer =>
          calc.result = ReferenceCounterOffer(calc.current_offer,
                            calc.seller_counter, calc.round, calc.asking_price)
    /\ ReferenceCounterOffer(850, 950, 1, 1000) = 900
    /\ ReferenceCounterOffer(900, 930, 2, 1000) = 921

\* 850 against 950 in round 1 on asking 1000: raw is 900, exactly 5% of the
\* asking price from the seller, which is not convergence; the result is 900.
C24_Witness ==
    /\ CalcIsCounterOffer
    /\ calc.current_offer = 850
    /\ calc.seller_counter = 950
    /\ calc.round = 1
    /\ calc.asking_price = 1000
    /\ calc.result = 900

\* The tier the age adjustment is stated to give: one step more aggressive
\* above 14 days, shrewd to moderate below 2 days (0 included), the base tier
\* for any other or absent age.
AgeAdjustedAsStated(base, age) ==
    IF age = None THEN base
    ELSE IF age > 14
    THEN (CASE base = "lenient" -> "moderate"
            [] base = "moderate" -> "shrewd"
            [] OTHER -> base)
    ELSE IF age < 2
    THEN (IF base = "shrewd" THEN "moderate" ELSE base)
    ELSE base

\* C25: with no override and a base tier other than accept, the selected
\* tier is the base tier stepped once more aggressive for a listing older
\* than 14 days, shrewd turned into moderate for every listing younger than
\* 2 days (0 days included), and the base tier otherwise.
C25_AgeAdjustsOneStep ==
    (/\ CalcIsBounds
     /\ calc.user_strategy = ""
     /\ ~is_great_deal(calc.asking_price, calc.market_avg, calc.deal_rating)) =>
        calc.strategy_tier =
            AgeAdjustedAsStated(base_tier(calc.asking_price, calc.market_avg,
                                          calc.deal_rating),
                                calc.listing_age_days)

\* C26: for tier accept and asking_price > 0 the bounds are initial_offer =
\* target_price = walk_away_price = asking_price; the repair (walk_away <=
\* initial_offer gives initial_offer x 1.2) followed by the cap at
\* asking_price leaves walk_away_price at asking_price.
C26_AcceptBoundsAreAskingPrice ==
    (/\ CalcIsBounds
     /\ calc.strategy_tier = "accept"
     /\ calc.asking_price > 0) =>
        /\ calc.initial_offer = calc.asking_price * 100
        /\ calc.target_price = calc.asking_price * 100
        /\ calc.walk_away_price = calc.asking_price * 100
        /\ repair_walk_away(calc.asking_price * 100, calc.initial_offer)
               > calc.asking_price * 100

\* A HOT listing at 1000 with no override: tier accept, the repair raises
\* walk_away to 1200 and the cap brings it back to 1000.
C26_Witness ==
    /\ CalcIsBounds
    /\ calc.deal_rating = "HOT"
    /\ calc.user_strategy = ""
    /\ calc.asking_price = 1000
    /\ calc.strategy_tier = "accept"
    /\ calc.walk_away_price = 100000

---------------------------------------------------------------------------
\* Further properties of the session (checked under Spec).

\* Some operation of the session is accepted from state st: every other call
\* raises ValueError and leaves the session as it is.
SomeOperationAccepted(st) ==
    can_start(st) \/ can_send_offer(st) \/ can_receive_response(st)

\* C27: no non-terminal state is a dead end: from composing, awaiting and
\* countering some operation is accepted, and from countering it is
\* send_offer, which sends the counter-offer and leads back to awaiting.
C27_NoDeadEnd ==
    /\ state \in {"composing", "awaiting", "countering"} =>
           SomeOperationAccepted(state)
    /\ state = "countering" => can_send_offer(state)

---------------------------------------------------------------------------
\* Properties of the counter-offer (checked under SpecCalc).

\* C28 as stated: the computed counter-offer is never lower than the buyer's
\* current offer and never higher than the seller's counter, whatever the
\* two amounts are, a seller counter below the current offer included.
C28_CounterOfferInBuyersFavour ==
    CalcIsCounterOffer =>
        /\ calc.current_offer <= calc.result
        /\ calc.result <= calc.seller_counter

\* C28 amended: the computed counter-offer lies between the two positions:
\* from current_offer up to seller_counter when the seller's counter is not
\* below the current offer, and from seller_counter up to current_offer (so
\* not above the buyer's current offer) when it is below.
C28_CounterOfferBetweenPositions ==
    CalcIsCounterOffer =>
        IF calc.seller_counter >= calc.current_offer
        THEN /\ calc.current_offer <= calc.result
             /\ calc.result <= calc.seller_counter
        ELSE /\ calc.seller_counter <= calc.result
             /\ calc.result <= calc.current_offer

\* The seller counters 900 against a current offer of 910 (asking 1000,
\* round 1): the computed counter-offer is 902, below the current offer.
C28_Witness ==
    /\ CalcIsCounterOffer
    /\ calc.current_offer = 910
    /\ calc.seller_counter = 900
    /\ calc.round = 1
    /\ calc.asking_price = 1000
    /\ calc.result = 902

---------------------------------------------------------------------------
\* The concession rate used in a session (checked under Spec).

\* C29: in a session begun with start(), the k-th counter response is
\* answered with the k-th entry of the concession schedule (capped at the
\* fifth), the first one with 0.50.  start() leaves round = 1 and every
\* counter adds 1, so the counter handled is number call.pre.round.
C29_KthCounterUsesKthRate ==
    (CounterHandled /\ call.recommended_action = "counter") =>
        call.suggested_offer =
            ReferenceCounterOffer(call.pre.current_offer, call.seller_counter,
                                  call.pre.round, asking_price)

---------------------------------------------------------------------------
\* Properties of the start requests (checked under SpecStart).

\* C30: two negotiations started by POST /negotiate/start never share a
\* negotiation id, an event queue or a status record, even when started for
\* the same listing within the same second; each background task writes only
\* to the queue and the record created for its own request.
C30_NegotiationsNeverShare ==
    /\ \A r1 \in Starts, r2 \in Starts :
           (r1 # r2 /\ starts[r1].pc # "new" /\ starts[r2].pc # "new") =>
               starts[r1].negotiation_id # starts[r2].negotiation_id
    /\ \A id \in NegotiationIds :
           /\ \A i \in 1..Len(streams_by_id[id].queue) :
                  streams_by_id[id].queue[i].by = streams_by_id[id].created_by
           /\ data_by_id[id].written_by \subseteq {data_by_id[id].created_by}

=============================================================================
